---- MODULE Spec2Model ----
(***************************************************************************)
(* Model of provision/kubernetes/deploy.go: serviceManager.DeployService,  *)
(* createAppDeployment, monitorDeployment, createDeployTimeoutError,       *)
(* filteredPodEvents and createPod, run against a cluster API whose        *)
(* answers (errors, deployment status, events, watch close) are chosen     *)
(* nondeterministically.                                                   *)
(***************************************************************************)
EXTENDS Integers, Sequences, FiniteSets, TLC

VARIABLES
    pc,       \* position of the running operation in its code
    ret,      \* value returned by the operation ("running" until it returns)
    cluster,  \* requests that changed the cluster: apply, rollback, services, ...
    events,   \* the cluster's event log; the resource version is its length
    ds,       \* locals of DeployService
    mon,      \* locals of monitorDeployment
    watch,    \* the watch.Interface returned by filteredPodEvents
    cp,       \* parameters and locals of createPod, and its drain goroutine
    w,        \* lines written to the output sink by the latest program step
    ghost     \* history of the run, read only by the properties

vars == <<pc, ret, cluster, events, ds, mon, watch, cp, w, ghost>>

----------------------------------------------------------------------------
\* Bounds of the model.
MaxReplicas == 1      \* replica counters and the desired count range over 0..MaxReplicas
MaxEvents == 1        \* events the cluster produces during one run
MaxMessages == 2      \* messages notReadyPodEvents can return

----------------------------------------------------------------------------
\* Values.
nil == [kind |-> "nil"]
Err(k) == [kind |-> k]

deadlineExeceededProgressCond == "ProgressDeadlineExceeded"
DeploymentProgressing == "Progressing"

depName == <<"myapp", "web">>                 \* deploymentNameForApp(a, process)
buildPodName == <<"myapp", "v1", "build">>    \* params.podName of createPod

HasPrefix(s, prefix) ==
    /\ Len(s) >= Len(prefix)
    /\ SubSeq(s, 1, Len(prefix)) = prefix

RECURSIVE Join(_, _)
Join(elems, sep) ==
    IF Len(elems) = 0 THEN <<>>
    ELSE IF Len(elems) = 1 THEN <<elems[1]>>
    ELSE <<elems[1], sep>> \o Join(Tail(elems), sep)

\* An apiv1.Event: its own name, and the kind, name and field path of the
\* object it is about.
Event(name, kind, involvedName, fieldPath) ==
    [involvedKind |-> kind, involvedName |-> involvedName, fieldPath |-> fieldPath,
     name |-> name, message |-> "msg", component |-> "kubelet", host |-> "node1"]

\* The name an event recorder gives to an event about the object called name.
RecorderName(name) == name \o <<".", "15a3">>

\* Events the cluster can log: one about a pod of the deployment, one about
\* the build pod, one about a node, all named by an event recorder, and one
\* about a pod of the deployment created under a name of its own.
EventSet ==
    { Event(RecorderName(depName \o <<"7d9f">>), "Pod", depName \o <<"7d9f">>,
            "spec.containers{web}"),
      Event(RecorderName(buildPodName), "Pod", buildPodName, ""),
      Event(RecorderName(<<"node1">>), "Node", <<"node1">>, ""),
      Event(<<"evt", "9c1e">>, "Pod", depName \o <<"7d9f">>, "") }

\* Deployment status conditions the API can report.
Condition(type, reason) == [type |-> type, reason |-> reason]

ConditionLists ==
    { <<>>,
      <<Condition("Available", "ProgressDeadlineExceeded")>>,
      <<Condition("Available", "MinimumReplicasAvailable"),
        Condition("Progressing", "ProgressDeadlineExceeded")>> }

StatusSet ==
    [UpdatedReplicas : 0..MaxReplicas, UnavailableReplicas : 0..MaxReplicas,
     Replicas : 0..MaxReplicas, Conditions : ConditionLists]

ZeroStatus ==
    [UpdatedReplicas |-> 0, UnavailableReplicas |-> 0, Replicas |-> 0,
     Conditions |-> <<>>]

\* Answers of notReadyPodEvents: one message per pod that is not ready.
PodMessages ==
    <<"Pod web-1: Unhealthy - probe failed", "Pod web-2: BackOff - restarting",
      "Pod web-3: FailedScheduling - no nodes", "Pod web-4: Failed - image pull">>

MessageLists == { SubSeq(PodMessages, 1, n) : n \in 0..MaxMessages }

----------------------------------------------------------------------------
\* The event watch (filteredPodEvents and the watch.Interface it returns).

\* Resource version the watch starts from; "" (modelled as -1) means now.
WatchFromNow(evtResourceVersion, now) == now

WatchFrom(evtResourceVersion, now) ==
    IF evtResourceVersion = -1 THEN now ELSE evtResourceVersion

\* The field selector of the watch.
Selected(e, podName) ==
    /\ e.involvedKind = "Pod"
    /\ podName # <<>> => e.involvedName = podName

\* Index of the next event the watch wt delivers, 0 when there is none yet.
NextEventOf(wt) ==
    LET later == { i \in (wt.cur + 1)..Len(events) : Selected(events[i], wt.podName) }
    IN  IF later = {} THEN 0 ELSE CHOOSE i \in later : \A j \in later : i <= j

NextEvent == NextEventOf(watch)

NoWatch == [state |-> "none", from |-> 0, cur |-> 0, closed |-> FALSE, podName |-> <<>>]

OpenWatch(evtResourceVersion, podName) ==
    LET from == WatchFrom(evtResourceVersion, Len(events))
    IN  [state |-> "open", from |-> from, cur |-> from, closed |-> FALSE,
         podName |-> podName]

isDeploymentEvent(e, name) == HasPrefix(e.name, name)

formatEvtMessage(e, showSub) ==
    <<e.involvedName>>
    \o (IF showSub /\ e.fieldPath # "" THEN <<" - ", e.fieldPath>> ELSE <<>>)
    \o <<" - ", e.message, " [">>
    \o Join(IF e.host # "" THEN <<e.component, e.host>> ELSE <<e.component>>, ", ")
    \o <<"]">>

----------------------------------------------------------------------------
\* Lines written to the output sink.
Line(t) == [t |-> t]
CountLine(t, n, of) == [t |-> t, n |-> n, of |-> of]
ErrLine(t, e) == [t |-> t, err |-> e]
EventLine(txt) == [t |-> "event", txt |-> txt]

----------------------------------------------------------------------------
\* createDeployTimeoutError: the lines it writes and the error it returns,
\* from the answer (messages, err) of notReadyPodEvents.  The elapsed time
\* in the message is left out.
createDeployTimeoutError(messages, err, label) ==
    [lines |-> IF err = nil
               THEN [i \in 1..Len(messages) |-> [t |-> "podNotReady", m |-> messages[i]]]
               ELSE <<>>,
     error |-> [kind |-> "timeout", label |-> label,
                msgErrorPart |-> IF err = nil /\ Len(messages) > 0
                                 THEN <<": ">> \o Join(messages, ", ")
                                 ELSE <<>>]]

----------------------------------------------------------------------------
\* The convergence loop of monitorDeployment, one iteration from the loop's
\* head to its select or to the monitor's return.

readyUnits(st) == st.UpdatedReplicas - st.UnavailableReplicas

pendingTermination(st) == st.Replicas - st.UpdatedReplicas

\* Whether the status carries the progress-deadline condition.
ExceededProgressDeadlineOfFirst(conds) ==
    /\ Len(conds) > 0
    /\ conds[1].type = DeploymentProgressing
    /\ conds[1].reason = deadlineExeceededProgressCond

ExceededProgressDeadline(conds) ==
    \E i \in DOMAIN conds :
        /\ conds[i].type = DeploymentProgressing
        /\ conds[i].reason = deadlineExeceededProgressCond

\* Guard of the call of allNewPodsRunning.
ChecksRunningAlways(healthcheckTimeout, st, specReplicas) ==
    st.UpdatedReplicas = specReplicas

ChecksRunning(healthcheckTimeout, st, specReplicas) ==
    /\ healthcheckTimeout = "nil"
    /\ st.UpdatedReplicas = specReplicas

ArmsHealthcheckUnchecked(healthcheckTimeout, st, specReplicas, allInit, err) ==
    healthcheckTimeout = "nil"

\* Whether the iteration arms the health-check timer, given the answer
\* (allInit, err) of allNewPodsRunning.
ArmsHealthcheck(healthcheckTimeout, st, specReplicas, allInit, err) ==
    /\ ChecksRunning(healthcheckTimeout, st, specReplicas)
    /\ allInit
    /\ err = nil

ConvergedOnReady(st, specReplicas) == readyUnits(st) = specReplicas

Converged(st, specReplicas) ==
    /\ readyUnits(st) = specReplicas
    /\ st.Replicas = specReplicas

ProgressLinesAlways(m, st, arms) ==
    <<CountLine("created", st.UpdatedReplicas, m.specReplicas),
      CountLine("ready", readyUnits(st), m.specReplicas),
      CountLine("pendingTermination", pendingTermination(st), 0)>>

ProgressLines(m, st, arms) ==
    (IF m.oldUpdatedReplicas # st.UpdatedReplicas
     THEN <<CountLine("created", st.UpdatedReplicas, m.specReplicas)>> ELSE <<>>)
    \o (IF arms THEN <<CountLine("waitingHealthcheck", m.specReplicas, m.specReplicas)>>
        ELSE <<>>)
    \o (IF m.oldReadyUnits # readyUnits(st) /\ readyUnits(st) >= 0
        THEN <<CountLine("ready", readyUnits(st), m.specReplicas)>> ELSE <<>>)
    \o (IF m.oldPendingTermination # pendingTermination(st) /\ pendingTermination(st) > 0
        THEN <<CountLine("pendingTermination", pendingTermination(st), 0)>> ELSE <<>>)

\* Answers (allInit, err) of allNewPodsRunning; a single dummy answer when
\* it is not called.
RunningAnswers(called) ==
    IF called
    THEN BOOLEAN \X {nil, Err("allNewPodsRunning")}
    ELSE {<<FALSE, nil>>}

ProgressDeadlineError == [kind |-> "progressDeadline", name |-> depName]

\* Values of the locals and of the history before monitorDeployment runs.
Running == [kind |-> "running"]

NoMon ==
    [dep |-> [Generation |-> 0, ObservedGeneration |-> 0, Status |-> ZeroStatus],
     specReplicas |-> 0,
     oldUpdatedReplicas |-> -1, oldReadyUnits |-> -1, oldPendingTermination |-> -1,
     healthcheckTimeout |-> "nil", timeout |-> "unset", watchCh |-> "unset",
     err |-> nil]

NoGhost ==
    [mutAt |-> -1, selected |-> "none", examined |-> FALSE,
     armCount |-> 0, armedOn |-> [updated |-> -1, allInit |-> FALSE, err |-> nil],
     checkedAfterArm |-> FALSE, watchErr |-> FALSE, gathered |-> <<>>,
     gatherErr |-> nil, monitorReturned |-> FALSE, closedAtReturn |-> FALSE,
     afterArm |-> FALSE, received |-> {}, openedAt |-> -1, steps |-> <<>>]

ReceivesAtExitAlways(watchCh) == TRUE

\* Whether the deferred function of monitorDeployment receives from watchCh.
ReceivesAtExit(watchCh) == watchCh # "nil"

\* monitorDeployment returns err: its deferred function calls Stop and, unless
\* watchCh is nil, receives once from the channel.  The receive takes the
\* event the watcher holds, if any, or sees the channel closed, which Stop
\* brings about; a receive from a nil channel would never return.  Of the
\* locals m, the deployment read last and the error stay visible to the
\* caller's model; wt is the watch, lines the step's output, g the history.
MonitorReturn(m, wt, err, lines, g) ==
    \E closed \in BOOLEAN :
        /\ ReceivesAtExit(m.watchCh) => m.watchCh # "nil"
        /\ IF ~ReceivesAtExit(m.watchCh) \/ wt.closed
           THEN closed = wt.closed
           ELSE closed = FALSE => NextEventOf(wt) # 0
        /\ watch' = [NoWatch EXCEPT !.state = "stopped", !.closed = closed]
        /\ ghost' = [g EXCEPT !.monitorReturned = TRUE, !.closedAtReturn = closed]
        /\ mon' = [NoMon EXCEPT !.err = err, !.dep = m.dep, !.specReplicas = m.specReplicas]
        /\ pc' = "ds_monitorReturned"
        /\ w' = lines

\* One iteration of the convergence loop.  m: the monitor's locals at the
\* loop's head; st: the status of dep there; wt: the watch; pre: lines the
\* step wrote before the iteration; g: the history before it.
LoopIteration(m, st, wt, pre, g) ==
    \E ans \in RunningAnswers(ChecksRunning(m.healthcheckTimeout, st, m.specReplicas)) :
        LET allInit == ans[1]
            runErr == ans[2]
            checks == ChecksRunning(m.healthcheckTimeout, st, m.specReplicas)
            arms == ArmsHealthcheck(m.healthcheckTimeout, st, m.specReplicas,
                                    allInit, runErr)
            lines == ProgressLines(m, st, arms)
            m2 == [m EXCEPT !.dep.Status = st,
                            !.healthcheckTimeout = IF arms THEN "armed" ELSE @,
                            !.oldUpdatedReplicas = st.UpdatedReplicas,
                            !.oldReadyUnits = readyUnits(st),
                            !.oldPendingTermination = pendingTermination(st)]
            g2 == [g EXCEPT
                     !.examined = TRUE,
                     !.afterArm = @ \/ (m.healthcheckTimeout # "nil"
                                         /\ st.UpdatedReplicas = m.specReplicas),
                     !.armCount = IF arms /\ @ < 2 THEN @ + 1 ELSE @,
                     !.armedOn = IF arms
                                 THEN [updated |-> st.UpdatedReplicas,
                                       allInit |-> allInit, err |-> runErr]
                                 ELSE @,
                     !.checkedAfterArm = @ \/ (checks /\ m.healthcheckTimeout # "nil")]
        IN  IF ExceededProgressDeadline(st.Conditions)
            THEN MonitorReturn([m EXCEPT !.dep.Status = st], wt, ProgressDeadlineError, pre,
                               [g EXCEPT !.examined = TRUE])
            ELSE IF Converged(st, m.specReplicas)
            THEN MonitorReturn(m2, wt, nil, pre \o lines \o <<Line("done")>>, g2)
            ELSE /\ mon' = m2
                 /\ watch' = wt
                 /\ ghost' = g2
                 /\ w' = pre \o lines
                 /\ pc' = "mon_select"

----------------------------------------------------------------------------
\* Initial states.

NoSecrets == [registry |-> <<>>, images |-> <<>>, hasCredentials |-> FALSE, refs |-> <<>>]

NoCp == [kind |-> "none", cmds |-> 0, destinationImages |-> 0, attachInput |-> FALSE,
         drain |-> "none", err |-> nil, secrets |-> NoSecrets, writing |-> {}]

\* The name of the image's web process, and the processes of an app.
webProcessName == "web"
Processes == {"web", "worker"}

\* Health-check methods as sequences of letters: none, GET in two spellings
\* and another method.
Methods == {<<>>, <<"G", "E", "T">>, <<"g", "e", "t">>, <<"P", "O", "S", "T">>}

\* provision.TsuruYamlHealthcheck: the fields probeFromHC reads.
Healthchecks == [Path : {"", "/"}, Method : Methods]

\* The answers of client.OvercommitFactor: a factor, or an error.
OvercommitAnswers ==
    [factor : {0, 2}, err : {nil}] \cup {[factor |-> 0, err |-> Err("OvercommitFactor")]}

\* a.GetMemory(): none declared, or some bytes.
Memories == {0, 4}

\* What createAppDeployment reads of the app, its image and its pool.
Apps == [process : Processes, hc : Healthchecks, overcommit : OvercommitAnswers,
         memory : Memories]

NoApp == [process |-> "", hc |-> [Path |-> "", Method |-> <<>>],
          overcommit |-> [factor |-> 0, err |-> nil], memory |-> 0]

\* An empty apiv1.ResourceList for limits and for requests (0: no memory entry).
NoResources == [limits |-> 0, requests |-> 0]

NoDs == [replicas |-> 0, oldDeployment |-> FALSE, token |-> -1, monitorCalled |-> FALSE,
         rollbackErr |-> nil, multiErrors |-> <<>>, app |-> NoApp]

InitCluster ==
    [applied |-> "none", rollbacks |-> 0, serviceCreates |-> <<>>, serviceAccounts |-> 0,
     secretCalls |-> <<>>, pods |-> 0, podSecrets |-> <<>>, podDeletes |-> 0,
     services |-> {}, deletes |-> <<>>, resources |-> NoResources]

\* DeployService is about to run with some desired replicas for some process
\* of an app (its health check, memory and pool's overcommit factor), or createPod
\* with some parameters (the lengths of cmds and of destinationImages, and
\* whether attachInput is set), or runInspectSidecar with some number of
\* destination images, or RemoveService.
Init ==
    /\ \/ /\ pc = "DeployService"
          /\ ds \in [replicas : 1..MaxReplicas, oldDeployment : {FALSE}, token : {-1},
                      monitorCalled : {FALSE}, rollbackErr : {nil}, multiErrors : {<<>>},
                      app : Apps]
          /\ cp = NoCp
       \/ /\ pc = "createPod"
          /\ ds = NoDs
          /\ cp \in [kind : {"build"}, cmds : {2, 3}, destinationImages : {0, 1},
                      attachInput : BOOLEAN,
                      drain : {"none"}, err : {nil}, secrets : {NoSecrets},
                      writing : {{}}]
       \/ /\ pc = "runInspectSidecar"
          /\ ds = NoDs
          /\ cp \in [kind : {"inspect"}, cmds : {0}, destinationImages : {0, 1},
                      attachInput : {FALSE},
                      drain : {"none"}, err : {nil}, secrets : {NoSecrets},
                      writing : {{}}]
       \/ /\ pc = "RemoveService"
          /\ ds = NoDs
          /\ cp = NoCp
    /\ ret = Running
    /\ cluster = InitCluster
    /\ events = <<>>
    /\ mon = NoMon
    /\ watch = NoWatch
    /\ w = <<>>
    /\ ghost = NoGhost

Return(e) == ret' = e /\ pc' = "done"

----------------------------------------------------------------------------
\* serviceManager.DeployService up to the call of monitorDeployment.

EnsureNodeContainers ==
    /\ pc = "DeployService"
    /\ \/ Return(Err("ensureNodeContainers"))
       \/ pc' = "ds_ensureServiceAccount" /\ ret' = ret
    /\ w' = <<>>
    /\ UNCHANGED <<cluster, events, ds, mon, watch, cp, ghost>>

\* ensureServiceAccount: Create, where AlreadyExists is no error.
EnsureServiceAccountForApp ==
    /\ pc = "ds_ensureServiceAccount"
    /\ cluster' = [cluster EXCEPT !.serviceAccounts = @ + 1]
    /\ \E answer \in {"created", "alreadyExists", "error"} :
          IF answer = "error"
          THEN Return(Err("serviceAccount"))
          ELSE pc' = "ds_getDeployment" /\ ret' = ret
    /\ w' = <<>>
    /\ UNCHANGED <<events, ds, mon, watch, cp, ghost>>

GetDeployment ==
    /\ pc = "ds_getDeployment"
    /\ \E answer \in {"found", "notFound", "error"} :
          IF answer = "error"
          THEN Return(Err("getDeployment")) /\ ds' = ds
          ELSE /\ pc' = "ds_listEvents"
               /\ ret' = ret
               /\ ds' = [ds EXCEPT !.oldDeployment = (answer = "found")]
    /\ w' = <<>>
    /\ UNCHANGED <<cluster, events, mon, watch, cp, ghost>>

ListEvents ==
    /\ pc = "ds_listEvents"
    /\ \/ Return(Err("listEvents")) /\ ds' = ds
       \/ /\ pc' = "ds_createAppDeployment"
          /\ ret' = ret
          /\ ds' = [ds EXCEPT !.token = Len(events)]
    /\ w' = <<>>
    /\ UNCHANGED <<cluster, events, mon, watch, cp, ghost>>

\* strings.ToUpper, over the letters of Methods.
LowerCase == <<"e", "g", "o", "p", "s", "t">>
UpperCase == <<"E", "G", "O", "P", "S", "T">>

ToUpper(s) ==
    IF s = <<>>
    THEN <<>>
    ELSE [i \in 1..Len(s) |->
            IF \E k \in 1..Len(LowerCase) : LowerCase[k] = s[i]
            THEN UpperCase[CHOOSE k \in 1..Len(LowerCase) : LowerCase[k] = s[i]]
            ELSE s[i]]

onlyGetSupported == Err("healthcheck: only GET method is supported in kubernetes provisioner")

probeFromHCAnyMethod(hc) ==
    [probe |-> IF hc.Path = "" THEN "none" ELSE "HTTPGet", err |-> nil]

\* probeFromHC: no probe without a path; an error for a method that is
\* neither empty nor GET once upper-cased; else an HTTP GET probe.
probeFromHC(hc) ==
    IF hc.Path = ""
    THEN [probe |-> "none", err |-> nil]
    ELSE LET method == ToUpper(hc.Method)
         IN  IF method # <<>> /\ method # <<"G", "E", "T">>
             THEN [probe |-> "none", err |-> onlyGetSupported]
             ELSE [probe |-> "HTTPGet", err |-> nil]

\* The probe of the deployment: only the web process has one.
ProbeOf(a) ==
    IF a.process = webProcessName
    THEN probeFromHC(a.hc)
    ELSE [probe |-> "none", err |-> nil]

\* memory/overcommit on int64 values panics when overcommit is 0.
DividesByZero(memory, overcommit) == memory # 0 /\ overcommit = 0

\* resourceLimits and resourceRequests: filled only when memory is declared.
Resources(memory, overcommit) ==
    IF memory # 0
    THEN [limits |-> memory, requests |-> memory \div overcommit]
    ELSE NoResources

\* Calls of createAppDeployment that can fail whatever the app is: before the
\* probe is built, and after the resources are computed.
FailuresBeforeProbe == {"LeanContainerCmdsWithExtra", "GetImageWebProcessName"}
FailuresAfterResources == {"createVolumesForApp", "getImagePullSecrets", "applyDeployment"}

\* The deployment object returned by Create (old = FALSE) or Update.
AppliedDeployments(old) ==
    IF old
    THEN [Generation : {2}, ObservedGeneration : {1, 2}, Status : StatusSet]
    ELSE [Generation : {1}, ObservedGeneration : {0}, Status : {ZeroStatus}]

\* createAppDeployment returns before the deployment is applied.
FailEarly(e) == Return(e) /\ UNCHANGED <<cluster, mon, ds, ghost>>

\* createAppDeployment as DeployService calls it; its arguments end with its
\* successful return, after which nothing reads them.
CreateAppDeployment ==
    /\ pc = "ds_createAppDeployment"
    /\ w' = <<>>
    /\ LET a == ds.app
           probe == ProbeOf(a)
       IN  \/ \E f \in FailuresBeforeProbe : FailEarly(Err(f))
           \/ a.process = webProcessName /\ FailEarly(Err("GetImageTsuruYamlData"))
           \/ probe.err # nil /\ FailEarly(probe.err)
           \/ /\ probe.err = nil
              /\ a.overcommit.err # nil
              /\ FailEarly(Err("misconfigured cluster overcommit factor"))
           \/ /\ probe.err = nil
              /\ a.overcommit.err = nil
              /\ DividesByZero(a.memory, a.overcommit.factor)
              /\ FailEarly([kind |-> "panic"])
           \/ /\ probe.err = nil
              /\ a.overcommit.err = nil
              /\ ~DividesByZero(a.memory, a.overcommit.factor)
              /\ \/ \E f \in FailuresAfterResources : FailEarly(Err(f))
                 \/ \E d \in AppliedDeployments(ds.oldDeployment) :
                      /\ cluster' = [cluster EXCEPT
                             !.applied = IF ds.oldDeployment THEN "Update" ELSE "Create",
                             !.resources = Resources(a.memory, a.overcommit.factor)]
                      /\ mon' = [mon EXCEPT !.dep = d, !.specReplicas = ds.replicas]
                      /\ ds' = [ds EXCEPT !.monitorCalled = TRUE, !.app = NoApp]
                      /\ ghost' = [ghost EXCEPT !.mutAt = Len(events)]
                      /\ pc' = "monitorDeployment"
                      /\ ret' = ret
    /\ UNCHANGED <<events, watch, cp>>

----------------------------------------------------------------------------
\* monitorDeployment.

WatchErrors == {Err("NewClusterClient"), Err("SetTimeout"), Err("Watch")}

\* filteredPodEvents, the header line and the deployment-progress timer.
MonitorOpenWatch ==
    /\ pc = "monitorDeployment"
    /\ \/ \E e \in WatchErrors :
            /\ mon' = [mon EXCEPT !.err = e]
            /\ ghost' = [ghost EXCEPT !.watchErr = TRUE, !.monitorReturned = TRUE]
            /\ pc' = "ds_monitorReturned"
            /\ w' = <<>>
            /\ watch' = watch
       \/ /\ watch' = OpenWatch(ds.token, <<>>)
          /\ mon' = [mon EXCEPT !.watchCh = "open", !.timeout = "armed"]
          /\ w' = <<Line("updating")>>
          /\ pc' = "mon_genLoop"
          /\ ghost' = [ghost EXCEPT !.openedAt = Len(events)]
    /\ UNCHANGED <<ret, cluster, events, ds, cp>>

\* A timer's channel can be ready at a select once the timer is armed:
\* whether it has fired by then is the clock's choice.
TimerNeverReady(timer) == FALSE

TimerCanBeReady(timer) == timer = "armed"

GenerationBehindNever(dep) == FALSE

\* The condition of the generation loop.
GenerationBehind(dep) == dep.ObservedGeneration < dep.Generation

\* One pass of the generation loop: Get, then the select takes the 100ms tick.
MonitorGenerationPoll ==
    /\ pc = "mon_genLoop"
    /\ GenerationBehind(mon.dep)
    /\ \/ MonitorReturn(mon, watch, Err("getDeployment"), <<>>, ghost)
       \/ \E og \in mon.dep.ObservedGeneration..mon.dep.Generation, st \in StatusSet :
            /\ mon' = [mon EXCEPT !.dep.ObservedGeneration = og, !.dep.Status = st]
            /\ pc' = "mon_genLoop"
            /\ w' = <<>>
            /\ UNCHANGED <<watch, ghost>>
    /\ UNCHANGED <<ret, cluster, events, ds, cp>>

\* One pass of the generation loop: Get, then the select takes the
\* deployment-progress timer.  The deployment just read is not used.
MonitorGenerationTimeout ==
    /\ pc = "mon_genLoop"
    /\ GenerationBehind(mon.dep)
    /\ TimerCanBeReady(mon.timeout)
    /\ MonitorReturn(mon, watch, Err("generationTimeout"), <<>>, ghost)
    /\ UNCHANGED <<ret, cluster, events, ds, cp>>

\* The generation loop ends; first iteration of the convergence loop.
MonitorEnterLoop ==
    /\ pc = "mon_genLoop"
    /\ ~GenerationBehind(mon.dep)
    /\ LoopIteration(mon, mon.dep.Status, watch, <<>>, ghost)
    /\ UNCHANGED <<ret, cluster, events, ds, cp>>

\* After a select case that falls through: Get, then the next iteration.
GetAndIterate(m, wt, pre, g) ==
    \/ MonitorReturn(m, wt, Err("getDeployment"), pre, g)
    \/ \E st \in StatusSet : LoopIteration(m, st, wt, pre, g)

SelectTick ==
    /\ pc = "mon_select"
    /\ GetAndIterate(mon, watch, <<>>, ghost)
    /\ UNCHANGED <<ret, cluster, events, ds, cp>>

\* Lines the monitor writes for an event received from the watch.
EchoEvent(e) ==
    IF isDeploymentEvent(e, depName)
    THEN <<EventLine(formatEvtMessage(e, FALSE))>>
    ELSE <<>>

ReceiveEventAsProgress(m, e) ==
    [m EXCEPT !.oldUpdatedReplicas = -1, !.healthcheckTimeout = "nil"]

\* The monitor's locals after the select case that received event e: the
\* case assigns none of them.
ReceiveEvent(m, e) == m

SelectEvent ==
    /\ pc = "mon_select"
    /\ mon.watchCh = "open"
    /\ ~watch.closed
    /\ NextEvent # 0
    /\ GetAndIterate(ReceiveEvent(mon, events[NextEvent]), [watch EXCEPT !.cur = NextEvent], EchoEvent(events[NextEvent]),
                     [ghost EXCEPT !.received = @ \cup {NextEvent}])
    /\ UNCHANGED <<ret, cluster, events, ds, cp>>

SelectClosed ==
    /\ pc = "mon_select"
    /\ mon.watchCh = "open"
    /\ watch.closed
    /\ GetAndIterate([mon EXCEPT !.watchCh = "nil"], watch, <<>>, ghost)
    /\ UNCHANGED <<ret, cluster, events, ds, cp>>

TimeoutLabelSwapped(sel) == IF sel = "healthcheckTimeout" THEN "full rollout" ELSE "healthcheck"

TimeoutLabel(sel) == IF sel = "healthcheckTimeout" THEN "healthcheck" ELSE "full rollout"

SelectTimer(sel) ==
    /\ pc = "mon_select"
    /\ \E messages \in MessageLists, gatherErr \in {nil, Err("notReadyPodEvents")} :
          LET r == createDeployTimeoutError(messages, gatherErr, TimeoutLabel(sel))
          IN  MonitorReturn(mon, watch, r.error, r.lines,
                            [ghost EXCEPT !.selected = sel, !.gathered = messages,
                                          !.gatherErr = gatherErr])
    /\ UNCHANGED <<ret, cluster, events, ds, cp>>

SelectHealthcheckTimeout ==
    /\ TimerCanBeReady(mon.healthcheckTimeout)
    /\ SelectTimer("healthcheckTimeout")

SelectTimeout ==
    /\ TimerCanBeReady(mon.timeout)
    /\ SelectTimer("timeout")

----------------------------------------------------------------------------
\* serviceManager.DeployService after monitorDeployment returned.

RollbackAlways(err) == TRUE

RollbackNever(err) == FALSE

RollbackNeeded(err) == err # nil

\* The error DeployService returns after a failed monitor.
ErrUnitStartupOfLast(err, rollbackErr) ==
    [kind |-> "ErrUnitStartup", Err |-> IF rollbackErr # nil THEN rollbackErr ELSE err]

ErrUnitStartup(err, rollbackErr) == [kind |-> "ErrUnitStartup", Err |-> err]

MonitorReturned ==
    /\ pc = "ds_monitorReturned"
    /\ IF RollbackNeeded(mon.err)
       THEN \E rollbackErr \in {nil, Err("rollback")} :
              /\ w' = <<ErrLine("rollingBack", mon.err)>>
                       \o (IF rollbackErr # nil
                           THEN <<ErrLine("rollbackError", rollbackErr)>> ELSE <<>>)
              /\ cluster' = [cluster EXCEPT !.rollbacks = @ + 1]
              /\ ds' = [ds EXCEPT !.rollbackErr = rollbackErr]
              /\ Return(ErrUnitStartup(mon.err, rollbackErr))
       ELSE /\ pc' = "ds_createService"
            /\ w' = <<>>
            /\ UNCHANGED <<ret, cluster, ds>>
    /\ UNCHANGED <<events, mon, watch, cp, ghost>>

\* Whether the answer of a service Create makes DeployService fail: an
\* error other than AlreadyExists.
CreateFailedUnlessCreated(answer) == answer # "created"

CreateFailed(answer) == answer = "error"

\* Services.Create of the service name: the service exists afterwards unless
\* the request failed; AlreadyExists is the answer when it existed before.
CreateServiceRequest(name, answer) ==
    cluster' = [cluster EXCEPT
                  !.serviceCreates = Append(@, [name |-> name, answer |-> answer]),
                  !.services = IF answer = "error" THEN @ ELSE @ \cup {name}]

CreateService ==
    /\ pc = "ds_createService"
    /\ \E answer \in {"created", "alreadyExists", "error"} :
          /\ CreateServiceRequest("service", answer)
          /\ IF CreateFailed(answer)
             THEN Return(Err("createService"))
             ELSE pc' = "ds_createHeadlessService" /\ ret' = ret
    /\ w' = <<>>
    /\ UNCHANGED <<events, ds, mon, watch, cp, ghost>>

CreateHeadlessService ==
    /\ pc = "ds_createHeadlessService"
    /\ \E answer \in {"created", "alreadyExists", "error"} :
          /\ CreateServiceRequest("headless", answer)
          /\ IF CreateFailed(answer)
             THEN Return(Err("createHeadlessService"))
             ELSE Return(nil)
    /\ w' = <<>>
    /\ UNCHANGED <<events, ds, mon, watch, cp, ghost>>

----------------------------------------------------------------------------
\* serviceManager.RemoveService.

\* Whether the answer of a deletion is added to multiErrors: an error other
\* than NotFound.
AddedUnlessDeleted(answer) == answer # "ok"

Added(answer) == answer = "error"

\* multiErrors.ToError().
ToError(multiErrors) ==
    IF multiErrors = <<>> THEN nil ELSE [kind |-> "multi", errs |-> multiErrors]

\* One deletion of RemoveService: the request, and its error added to
\* multiErrors.
Deletion(name, answer) ==
    /\ cluster' = [cluster EXCEPT !.deletes = Append(@, [name |-> name, answer |-> answer])]
    /\ ds' = [ds EXCEPT !.multiErrors = IF Added(answer) THEN Append(@, Err(name)) ELSE @]

RemoveDeployment ==
    /\ pc = "RemoveService"
    /\ \E answer \in {"ok", "notFound", "error"} : Deletion("deployment", answer)
    /\ pc' = "rs_deleteService"
    /\ w' = <<>>
    /\ UNCHANGED <<ret, events, mon, watch, cp, ghost>>

RemoveLoadBalanced ==
    /\ pc = "rs_deleteService"
    /\ \E answer \in {"ok", "notFound", "error"} : Deletion("service", answer)
    /\ pc' = "rs_deleteHeadless"
    /\ w' = <<>>
    /\ UNCHANGED <<ret, events, mon, watch, cp, ghost>>

RemoveHeadless ==
    /\ pc = "rs_deleteHeadless"
    /\ \E answer \in {"ok", "notFound", "error"} : Deletion("headless", answer)
    /\ Return(ToError(ds'.multiErrors))
    /\ w' = <<>>
    /\ UNCHANGED <<events, mon, watch, cp, ghost>>

----------------------------------------------------------------------------
\* createPod.

\* An image reference is a sequence of tokens, "/" being one of them;
\* strings.Split(image, "/")[0] is what precedes the first "/".
RECURSIVE imgDomain(_)
imgDomain(image) ==
    IF image = <<>> \/ Head(image) = "/" THEN <<>>
    ELSE <<Head(image)>> \o imgDomain(Tail(image))

\* docker:registry (<<>> when unset), params.sourceImage and
\* kubeConf.DeploySidecarImage.
RegistrySet == { <<"reg.io">>, <<>> }

SourceImages == { <<"reg.io", "/", "tsuru", "/", "app">>, <<"hub.io", "/", "app">>, <<"app">> }

SidecarImages == { <<"hub.io", "/", "deploy-agent">>, <<"reg.io", "/", "deploy-agent">> }

\* getImagePullSecrets: whether some image is of the configured registry.
UseSecretAlways(registry, images) == TRUE

UseSecret(registry, images) ==
    \E i \in DOMAIN images : imgDomain(images[i]) = registry

\* A request of the secrets API and its answer.
SecretCall(op, answer) == [op |-> op, answer |-> answer]

\* ensureAuthSecret called by getImagePullSecrets: the secret requests it
\* issues, its error and the references returned.
getImagePullSecretsCreateFirst(useSecret, hasCredentials, update, create) ==
    IF ~useSecret THEN [calls |-> <<>>, err |-> nil, refs |-> <<>>]
    ELSE IF ~hasCredentials
         THEN [calls |-> <<>>, err |-> nil, refs |-> <<"registry-secret">>]
    ELSE IF create = "ok"
         THEN [calls |-> <<SecretCall("Create", create)>>, err |-> nil,
               refs |-> <<"registry-secret">>]
    ELSE [calls |-> <<SecretCall("Create", create)>>, err |-> Err("secretCreate"),
          refs |-> <<>>]

getImagePullSecrets(useSecret, hasCredentials, update, create) ==
    IF ~useSecret THEN [calls |-> <<>>, err |-> nil, refs |-> <<>>]
    ELSE IF ~hasCredentials
         THEN [calls |-> <<>>, err |-> nil, refs |-> <<"registry-secret">>]
    ELSE IF update = "ok"
         THEN [calls |-> <<SecretCall("Update", update)>>, err |-> nil,
               refs |-> <<"registry-secret">>]
    ELSE IF update = "error"
         THEN [calls |-> <<SecretCall("Update", update)>>, err |-> Err("secretUpdate"),
               refs |-> <<>>]
    ELSE IF create = "ok"
         THEN [calls |-> <<SecretCall("Update", update), SecretCall("Create", create)>>,
               err |-> nil, refs |-> <<"registry-secret">>]
    ELSE [calls |-> <<SecretCall("Update", update), SecretCall("Create", create)>>,
          err |-> Err("secretCreate"), refs |-> <<>>]

\* A step of a pod pipeline, added to the history.
Step(g, name, ok) == [g EXCEPT !.steps = Append(@, [step |-> name, ok |-> ok])]

\* The checks of the parameters.
CmdsAcceptedAny(n) == TRUE

CmdsAccepted(n) == n = 3

CreatePodValidate ==
    /\ pc = "createPod"
    /\ IF ~CmdsAccepted(cp.cmds) THEN Return(Err("unexpected cmds list"))
       ELSE IF cp.destinationImages = 0 THEN Return(Err("no destination images provided"))
       ELSE pc' = "cp_ensureServiceAccount" /\ ret' = ret
    /\ w' = <<>>
    /\ UNCHANGED <<cluster, events, ds, mon, watch, cp, ghost>>

\* ensureServiceAccountForApp, the calls in failures, and getImagePullSecrets
\* under some configuration and some answers of the secrets API; next is the
\* position after them.
PodPrepare(failures, next) ==
    \/ /\ Return(Err("serviceAccount"))
       /\ cluster' = [cluster EXCEPT !.serviceAccounts = @ + 1]
       /\ cp' = cp
    \/ /\ \E f \in failures : Return(Err(f))
       /\ cluster' = [cluster EXCEPT !.serviceAccounts = @ + 1]
       /\ cp' = cp
    \/ \E registry \in RegistrySet, src \in SourceImages, sidecar \in SidecarImages,
          hasCredentials \in BOOLEAN, upd \in {"ok", "notFound", "error"},
          crt \in {"ok", "error"} :
         LET images == <<src, sidecar>>
             s == getImagePullSecrets(UseSecret(registry, images), hasCredentials, upd, crt)
         IN  /\ cluster' = [cluster EXCEPT !.serviceAccounts = @ + 1,
                                           !.secretCalls = s.calls]
             /\ cp' = [cp EXCEPT !.secrets = [registry |-> registry, images |-> images,
                                              hasCredentials |-> hasCredentials,
                                              refs |-> s.refs]]
             /\ IF s.err # nil THEN Return(s.err)
                ELSE pc' = next /\ ret' = ret

\* ensureServiceAccountForApp, ServiceLabels, createVolumesForApp and
\* getImagePullSecrets.
CreatePodPrepare ==
    /\ pc = "cp_ensureServiceAccount"
    /\ PodPrepare({"ServiceLabels", "createVolumesForApp"}, "cp_createPod")
    /\ w' = <<>>
    /\ UNCHANGED <<events, ds, mon, watch, ghost>>

\* Pods.Create, then filteredPodEvents for the pod, from now; when the watch
\* is open the drain goroutine starts.
CreatePodCreate ==
    /\ pc = "cp_createPod"
    /\ \/ /\ Return(Err("createPod"))
          /\ ghost' = Step(ghost, "create", FALSE)
          /\ UNCHANGED <<cluster, watch, cp>>
       \/ /\ cluster' = [cluster EXCEPT !.pods = @ + 1, !.podSecrets = cp.secrets.refs]
          /\ \/ /\ \E e \in WatchErrors : Return(e)
                /\ ghost' = [Step(ghost, "create", TRUE) EXCEPT !.watchErr = TRUE]
                /\ UNCHANGED <<watch, cp>>
             \/ /\ watch' = OpenWatch(-1, buildPodName)
                /\ cp' = [cp EXCEPT !.drain = "running"]
                /\ pc' = "cp_waitRunning"
                /\ ghost' = Step(ghost, "create", TRUE)
                /\ ret' = ret
    /\ w' = <<>>
    /\ UNCHANGED <<events, ds, mon>>

\* The deferred function starts: Stop.
CreatePodStop(err) ==
    /\ watch' = [watch EXCEPT !.state = "stopped"]
    /\ cp' = [cp EXCEPT !.err = err]
    /\ pc' = "cp_defer"
    /\ ret' = ret

CreatePodWaitRunning ==
    /\ pc = "cp_waitRunning"
    /\ \/ /\ CreatePodStop(Err("waitForPodContainersRunning"))
          /\ ghost' = Step(ghost, "running", FALSE)
       \/ /\ pc' = IF cp.attachInput THEN "cp_attach" ELSE "cp_waitForPod"
          /\ ghost' = Step(ghost, "running", TRUE)
          /\ UNCHANGED <<ret, watch, cp>>
    /\ w' = <<>>
    /\ UNCHANGED <<cluster, events, ds, mon>>

\* What a Write on params.attachOutput leaves in the output when it begins
\* while the flows in writing are inside a Write of their own: the writer is
\* the caller's and nothing orders the two, so the line can come out whole or
\* mixed with the other's.
WriteOutcomes(line, writing) ==
    {<<line>>} \cup (IF writing # {} THEN {<<Line("interleaved")>>} ELSE {})

\* doAttach is streaming: a chunk of the container's stdout or stderr is
\* written to params.attachOutput.
AttachStreamWrite ==
    /\ pc = "cp_attach"
    /\ "main" \notin cp.writing
    /\ cp' = [cp EXCEPT !.writing = @ \cup {"main"}]
    /\ w' \in WriteOutcomes(Line("attachStream"), cp.writing)
    /\ UNCHANGED <<pc, ret, cluster, events, ds, mon, watch, ghost>>

\* A Write of the main flow returns.
MainWritten ==
    /\ pc \in {"cp_attach", "cp_waitForPod"}
    /\ "main" \in cp.writing
    /\ cp' = [cp EXCEPT !.writing = @ \ {"main"}]
    /\ w' = <<>>
    /\ UNCHANGED <<pc, ret, cluster, events, ds, mon, watch, ghost>>

\* doAttach returns; on success the "Cleaning up" notice is written.
CreatePodAttach ==
    /\ pc = "cp_attach"
    /\ "main" \notin cp.writing
    /\ \/ /\ CreatePodStop(Err("error attaching"))
          /\ ghost' = Step(ghost, "attach", FALSE)
          /\ w' = <<>>
       \/ /\ pc' = "cp_waitForPod"
          /\ ghost' = Step(ghost, "attach", TRUE)
          /\ cp' = [cp EXCEPT !.writing = @ \cup {"main"}]
          /\ w' \in WriteOutcomes(Line("cleaningUp"), cp.writing)
          /\ UNCHANGED <<ret, watch>>
    /\ UNCHANGED <<cluster, events, ds, mon>>

CreatePodWaitForPod ==
    /\ pc = "cp_waitForPod"
    /\ "main" \notin cp.writing
    /\ \E err \in {nil, Err("waitForPod")} :
          /\ CreatePodStop(err)
          /\ ghost' = Step(ghost, "waitForPod", err = nil)
    /\ w' = <<>>
    /\ UNCHANGED <<cluster, events, ds, mon>>

\* The drain goroutine receives an event and begins to write it.
DrainEvent ==
    /\ cp.drain = "running"
    /\ "drain" \notin cp.writing
    /\ ~watch.closed
    /\ NextEvent # 0
    /\ watch' = [watch EXCEPT !.cur = NextEvent]
    /\ cp' = [cp EXCEPT !.writing = @ \cup {"drain"}]
    /\ w' \in WriteOutcomes(EventLine(formatEvtMessage(events[NextEvent], TRUE)), cp.writing)
    /\ UNCHANGED <<pc, ret, cluster, events, ds, mon, ghost>>

\* The Write of the drain goroutine returns.
DrainWritten ==
    /\ "drain" \in cp.writing
    /\ cp' = [cp EXCEPT !.writing = @ \ {"drain"}]
    /\ w' = <<>>
    /\ UNCHANGED <<pc, ret, cluster, events, ds, mon, watch, ghost>>

\* The drain goroutine sees the channel closed and closes watchDone.
DrainClosed ==
    /\ cp.drain = "running"
    /\ "drain" \notin cp.writing
    /\ watch.closed
    /\ cp' = [cp EXCEPT !.drain = "done"]
    /\ w' = <<>>
    /\ UNCHANGED <<pc, ret, cluster, events, ds, mon, watch, ghost>>

\* The deferred function ends: watchDone is closed.
CreatePodReturn ==
    /\ pc = "cp_defer"
    /\ cp.drain = "done"
    /\ Return(cp.err)
    /\ w' = <<>>
    /\ UNCHANGED <<cluster, events, ds, mon, watch, cp, ghost>>

----------------------------------------------------------------------------
\* runInspectSidecar.

InspectValidate ==
    /\ pc = "runInspectSidecar"
    /\ IF cp.destinationImages = 0 THEN Return(Err("no destination images provided"))
       ELSE pc' = "in_ensureServiceAccount" /\ ret' = ret
    /\ w' = <<>>
    /\ UNCHANGED <<cluster, events, ds, mon, watch, cp, ghost>>

\* ensureServiceAccountForApp, ServiceLabels and getImagePullSecrets.
InspectPrepare ==
    /\ pc = "in_ensureServiceAccount"
    /\ PodPrepare({"ServiceLabels"}, "in_createPod")
    /\ w' = <<>>
    /\ UNCHANGED <<events, ds, mon, watch, ghost>>

\* Pods.Create; from here on cleanupPod is deferred.
InspectCreate ==
    /\ pc = "in_createPod"
    /\ \/ /\ Return(Err("createPod"))
          /\ ghost' = Step(ghost, "create", FALSE)
          /\ cluster' = cluster
       \/ /\ cluster' = [cluster EXCEPT !.pods = @ + 1, !.podSecrets = cp.secrets.refs]
          /\ ghost' = Step(ghost, "create", TRUE)
          /\ pc' = "in_waitRunning"
          /\ ret' = ret
    /\ w' = <<>>
    /\ UNCHANGED <<events, ds, mon, watch, cp>>

\* multiErr.Add.
Add(multiErr, err) ==
    IF err = nil THEN multiErr
    ELSE [kind |-> "multi",
          errs |-> (IF multiErr = nil THEN <<>> ELSE multiErr.errs) \o <<err>>]

\* The function returns after the pod was created: the deferred cleanupPod
\* deletes the pod.
DeferredCleanupNever(created) == FALSE

DeferredCleanup(created) == created

InspectReturn(err) ==
    /\ Return(err)
    /\ cluster' = [cluster EXCEPT
                     !.podDeletes = IF DeferredCleanup(cluster.pods > 0) THEN @ + 1 ELSE @]

\* waitForPodContainersRunning: its error is kept and the attach follows.
InspectWaitRunning ==
    /\ pc = "in_waitRunning"
    /\ \E err \in {nil, Err("waitForPodContainersRunning")} :
          /\ cp' = [cp EXCEPT !.err = Add(@, err)]
          /\ ghost' = Step(ghost, "running", err = nil)
    /\ pc' = "in_attach"
    /\ w' = <<>>
    /\ UNCHANGED <<ret, cluster, events, ds, mon, watch>>

\* doAttach, then the return of the errors kept, if any.
InspectAttach ==
    /\ pc = "in_attach"
    /\ \E err \in {nil, Err("doAttach")} :
          LET multiErr == Add(cp.err, err)
          IN  /\ cp' = [cp EXCEPT !.err = multiErr]
              /\ ghost' = Step(ghost, "attach", err = nil)
              /\ IF multiErr # nil
                 THEN InspectReturn(multiErr)
                 ELSE pc' = "in_waitForPod" /\ UNCHANGED <<ret, cluster>>
    /\ w' = <<>>
    /\ UNCHANGED <<events, ds, mon, watch>>

InspectWaitForPod ==
    /\ pc = "in_waitForPod"
    /\ \E err \in {nil, Err("waitForPod")} :
          /\ InspectReturn(err)
          /\ ghost' = Step(ghost, "waitForPod", err = nil)
    /\ w' = <<>>
    /\ UNCHANGED <<events, ds, mon, watch, cp>>

----------------------------------------------------------------------------
\* The cluster.

WhileWatched ==
    pc \in {"DeployService", "ds_ensureServiceAccount", "ds_getDeployment", "ds_listEvents",
            "ds_createAppDeployment", "monitorDeployment", "mon_genLoop", "mon_select",
            "cp_createPod", "cp_waitRunning", "cp_attach", "cp_waitForPod", "cp_defer"}

ProduceEvent ==
    /\ WhileWatched
    /\ Len(events) < MaxEvents
    /\ \E e \in EventSet : events' = Append(events, e)
    /\ UNCHANGED <<pc, ret, cluster, ds, mon, watch, cp, w, ghost>>

\* The result channel closes: the server ends the stream, or Stop was called
\* and the watcher ends.
CloseWatch ==
    /\ watch.state = "open" \/ (watch.state = "stopped" /\ pc = "cp_defer")
    /\ ~watch.closed
    /\ watch' = [watch EXCEPT !.closed = TRUE]
    /\ UNCHANGED <<pc, ret, cluster, events, ds, mon, cp, w, ghost>>

----------------------------------------------------------------------------
DeployService ==
    \/ EnsureNodeContainers
    \/ EnsureServiceAccountForApp
    \/ GetDeployment
    \/ ListEvents
    \/ CreateAppDeployment
    \/ MonitorReturned
    \/ CreateService
    \/ CreateHeadlessService

monitorDeployment ==
    \/ MonitorOpenWatch
    \/ MonitorGenerationPoll
    \/ MonitorGenerationTimeout
    \/ MonitorEnterLoop
    \/ SelectTick
    \/ SelectEvent
    \/ SelectClosed
    \/ SelectHealthcheckTimeout
    \/ SelectTimeout

Environment ==
    \/ ProduceEvent
    \/ CloseWatch

createPod ==
    \/ CreatePodValidate
    \/ CreatePodPrepare
    \/ CreatePodCreate
    \/ CreatePodWaitRunning
    \/ AttachStreamWrite
    \/ MainWritten
    \/ CreatePodAttach
    \/ CreatePodWaitForPod
    \/ DrainEvent
    \/ DrainWritten
    \/ DrainClosed
    \/ CreatePodReturn

RemoveService ==
    \/ RemoveDeployment
    \/ RemoveLoadBalanced
    \/ RemoveHeadless

runInspectSidecar ==
    \/ InspectValidate
    \/ InspectPrepare
    \/ InspectCreate
    \/ InspectWaitRunning
    \/ InspectAttach
    \/ InspectWaitForPod

Next ==
    \/ DeployService
    \/ monitorDeployment
    \/ RemoveService
    \/ createPod
    \/ runInspectSidecar
    \/ Environment

Spec == Init /\ [][Next]_vars


\* The steps of the monitor that do not depend on what the cluster answers:
\* the watch request returns, the generation loop ends once the generation
\* is observed, and a select takes the deployment-progress timer.
MonitorAdvances ==
    \/ MonitorOpenWatch
    \/ MonitorEnterLoop
    \/ MonitorGenerationTimeout
    \/ SelectTimeout

\* Calls of the cluster API return and timers fire: while the monitor runs,
\* one of these steps is always possible, and it is eventually taken.
FairSpec == Init /\ [][Next]_vars /\ WF_vars(MonitorAdvances)

----------------------------------------------------------------------------
\* Properties.

\* C1: DeployService issues a rollback if and only if monitorDeployment
\* returned an error, which happens only after the deployment was created or
\* updated; a failure of an earlier step, or a monitor that succeeds, issues
\* no rollback.
RollbackIffMonitorFailed ==
    /\ cluster.rollbacks <= 1
    /\ cluster.rollbacks = 1 =>
          /\ ghost.monitorReturned
          /\ mon.err # nil
          /\ cluster.applied \in {"Create", "Update"}
    /\ ghost.monitorReturned => cluster.applied \in {"Create", "Update"}
    /\ (pc \in {"done", "ds_createService", "ds_createHeadlessService"}
          /\ ghost.monitorReturned /\ mon.err # nil) => cluster.rollbacks = 1
    /\ (pc = "done" /\ ~ghost.monitorReturned) => cluster.rollbacks = 0

RolledBackAfterUpdate ==
    /\ pc = "done"
    /\ cluster.rollbacks = 1
    /\ cluster.applied = "Update"
    /\ mon.err.kind = "timeout"

\* C2: when the monitor fails, DeployService returns the monitor's error
\* wrapped as a unit-startup error whether or not the rollback fails; the
\* rollback's failure is written after the banner carrying the monitor's
\* error and is never the error returned.
ReturnsMonitorError ==
    (pc = "done" /\ ghost.monitorReturned /\ mon.err # nil) =>
        /\ ret = [kind |-> "ErrUnitStartup", Err |-> mon.err]
        /\ ret.Err # ds.rollbackErr
        /\ w[1] = [t |-> "rollingBack", err |-> mon.err]
        /\ IF ds.rollbackErr # nil
           THEN w = <<w[1], [t |-> "rollbackError", err |-> ds.rollbackErr]>>
           ELSE w = <<w[1]>>

RollbackFailedToo ==
    /\ pc = "done"
    /\ ghost.monitorReturned
    /\ mon.err = [kind |-> "progressDeadline", name |-> depName]
    /\ ds.rollbackErr # nil

\* C3: the monitor returns success from the first iteration whose status has
\* no progress-deadline condition, ready replicas = desired and total
\* replicas = desired, writing no timeout error; it never returns success
\* from an iteration where one of the equalities fails.
SuccessIffConverged ==
    LET st == mon.dep.Status
        readyAndDrained ==
            /\ st.UpdatedReplicas - st.UnavailableReplicas = mon.specReplicas
            /\ st.Replicas = mon.specReplicas
        deadline ==
            \E i \in DOMAIN st.Conditions :
                /\ st.Conditions[i].type = "Progressing"
                /\ st.Conditions[i].reason = "ProgressDeadlineExceeded"
    IN  /\ pc = "mon_select" => ~(readyAndDrained /\ ~deadline)
        /\ (pc = "ds_monitorReturned" /\ mon.err = nil) =>
              /\ ghost.examined
              /\ readyAndDrained
              /\ ~deadline
              /\ ghost.selected = "none"
              /\ w[Len(w)] = [t |-> "done"]
              /\ \A i \in DOMAIN w : w[i].t # "podNotReady"

MonitorSucceeded ==
    /\ pc = "ds_monitorReturned"
    /\ mon.err = nil
    /\ mon.specReplicas = MaxReplicas
    /\ mon.dep.Status.UpdatedReplicas = MaxReplicas
    /\ mon.dep.Status.UnavailableReplicas = 0
    /\ mon.dep.Status.Replicas = MaxReplicas

\* C4 as stated: a status examined at the head of an iteration with any
\* condition whose reason is ProgressDeadlineExceeded makes the monitor
\* return at once with the error naming the deployment.
AnyDeadlineReasonFails ==
    (pc \in {"mon_select", "ds_monitorReturned"} /\ ghost.examined
       /\ \E i \in DOMAIN mon.dep.Status.Conditions :
             mon.dep.Status.Conditions[i].reason = "ProgressDeadlineExceeded") =>
        /\ pc = "ds_monitorReturned"
        /\ mon.err = [kind |-> "progressDeadline", name |-> depName]

\* C4: a status examined at the head of an iteration with any condition of
\* type Progressing whose reason is ProgressDeadlineExceeded makes the
\* monitor return at once with the error naming the deployment, whatever the
\* replica counters.
ProgressingDeadlineFails ==
    (pc \in {"mon_select", "ds_monitorReturned"} /\ ghost.examined
       /\ \E i \in DOMAIN mon.dep.Status.Conditions :
             /\ mon.dep.Status.Conditions[i].type = "Progressing"
             /\ mon.dep.Status.Conditions[i].reason = "ProgressDeadlineExceeded") =>
        /\ pc = "ds_monitorReturned"
        /\ mon.err = [kind |-> "progressDeadline", name |-> depName]
        /\ w \in {<<>>} \cup {<<l>> : l \in {[t |-> "event", txt |-> formatEvtMessage(e, FALSE)] :
                                              e \in EventSet}}

DeadlineWithCountersConverged ==
    /\ pc = "ds_monitorReturned"
    /\ mon.err = [kind |-> "progressDeadline", name |-> depName]
    /\ mon.dep.Status.UpdatedReplicas - mon.dep.Status.UnavailableReplicas = mon.specReplicas
    /\ mon.dep.Status.Replicas = mon.specReplicas

\* C5: the select taking the health-check timer returns a timeout error
\* labelled "healthcheck", taking the deployment-progress timer one labelled
\* "full rollout"; a "healthcheck" error is returned only after the health
\* timer was armed; the error is returned even when gathering the not-ready
\* messages fails, and holds every message when gathering succeeds.
TimeoutErrorLabelled ==
    ghost.monitorReturned =>
        /\ ghost.selected = "healthcheckTimeout" =>
              mon.err.kind = "timeout" /\ mon.err.label = "healthcheck"
        /\ ghost.selected = "timeout" =>
              mon.err.kind = "timeout" /\ mon.err.label = "full rollout"
        /\ mon.err.kind = "timeout" =>
              /\ ghost.selected # "none"
              /\ mon.err.label = "healthcheck" => ghost.armCount > 0
              /\ ghost.gatherErr = nil =>
                    \A i \in DOMAIN ghost.gathered :
                        \E j \in DOMAIN mon.err.msgErrorPart :
                            mon.err.msgErrorPart[j] = ghost.gathered[i]

HealthcheckTimeoutWithMessages ==
    /\ pc = "ds_monitorReturned"
    /\ mon.err.kind = "timeout"
    /\ mon.err.label = "healthcheck"
    /\ ghost.gatherErr = nil
    /\ Len(ghost.gathered) = MaxMessages

\* C6: in one run of the monitor the health-check timer is armed at most
\* once, only in an iteration where updated replicas = desired and
\* allNewPodsRunning answered true without error; once armed it stays armed
\* and allNewPodsRunning is not called again.
HealthTimerArmedOnce ==
    /\ ghost.armCount <= 1
    /\ ~ghost.checkedAfterArm
    /\ ghost.armCount = 1 =>
          /\ ghost.armedOn.updated = mon.specReplicas
          /\ ghost.armedOn.allInit
          /\ ghost.armedOn.err = nil
    /\ pc = "mon_select" => (mon.healthcheckTimeout = "armed" <=> ghost.armCount = 1)

IteratedAfterArming ==
    /\ pc = "mon_select"
    /\ ghost.armCount = 1
    /\ ghost.afterArm

\* C7: every run of monitorDeployment eventually returns, given that calls
\* of the cluster API return and timers fire.
MonitorTerminates == (pc = "monitorDeployment") ~> ghost.monitorReturned

ReturnedOnGenerationTimeout ==
    /\ pc = "ds_monitorReturned"
    /\ mon.err = Err("generationTimeout")
    /\ ~ghost.examined

\* C8: when opening the event watch fails, monitorDeployment, DeployService
\* and createPod do not fail because of it, and no rollback is issued.
WatchFailureNotFatal ==
    ghost.watchErr =>
        /\ mon.err \notin WatchErrors
        /\ ret \notin WatchErrors
        /\ cluster.rollbacks = 0

\* C9: createPod and monitorDeployment, once the watch was opened, return
\* only after the watch was stopped and its channel drained until closed; in
\* createPod the drain goroutine has ended by then.
WatchDrainedAtReturn ==
    /\ (ghost.monitorReturned /\ ghost.openedAt # -1) =>
          /\ watch.state = "stopped"
          /\ ghost.closedAtReturn
    /\ (pc = "done" /\ cp.drain # "none") =>
          /\ watch.state = "stopped"
          /\ watch.closed
          /\ cp.drain = "done"

\* C10: the resume token is read before the deployment is created or
\* updated and the monitor's watch starts from it, so every pod event
\* produced after the mutation is delivered to the monitor's watch: it was
\* received or is still ahead in the stream.
NoEventLost ==
    /\ ghost.mutAt # -1 => (ds.token # -1 /\ ds.token <= ghost.mutAt)
    /\ (pc \in {"mon_genLoop", "mon_select"} /\ watch.state = "open") =>
          /\ watch.from = ds.token
          /\ \A i \in 1..Len(events) :
                (i > ghost.mutAt /\ events[i].involvedKind = "Pod") =>
                    /\ i > watch.from
                    /\ i \in ghost.received \/ i > watch.cur

ReceivedEventFromBeforeWatch ==
    /\ pc = "mon_select"
    /\ \E i \in ghost.received : i > ghost.mutAt /\ i <= ghost.openedAt


\* C11 as stated: in createPod and in runInspectSidecar the steps run in the
\* order pod created, containers running, attach, wait for the terminal
\* phase; no step is started after a step failed, and the attach is opened
\* only after the wait for running containers succeeded.
PipelineStopsAtFirstFailure ==
    LET st == ghost.steps
        Ord(x) == CASE x = "create" -> 1 [] x = "running" -> 2 [] x = "attach" -> 3
                    [] x = "waitForPod" -> 4
    IN  /\ \A i, j \in DOMAIN st : i < j => Ord(st[i].step) < Ord(st[j].step)
        /\ \A i \in DOMAIN st : ~st[i].ok => i = Len(st)
        /\ \A j \in DOMAIN st :
              st[j].step = "attach" =>
                  \E i \in 1..(j - 1) : st[i].step = "running" /\ st[i].ok

\* C12: createPod with a command list of other than three elements or with
\* no destination image, and runInspectSidecar with no destination image,
\* fail at once: no pod, service account or secret request is issued.
InvalidParamsCreateNothing ==
    ((cp.kind = "build" /\ (cp.cmds # 3 \/ cp.destinationImages = 0))
       \/ (cp.kind = "inspect" /\ cp.destinationImages = 0)) =>
        /\ pc \in {"createPod", "runInspectSidecar", "done"}
        /\ cluster = InitCluster
        /\ ghost.steps = <<>>
        /\ pc = "done" =>
              ret = IF cp.kind = "build" /\ cp.cmds # 3
                    THEN [kind |-> "unexpected cmds list"]
                    ELSE [kind |-> "no destination images provided"]

TwoCmdsRejected ==
    /\ pc = "done"
    /\ cp.kind = "build"
    /\ cp.cmds = 2
    /\ cp.destinationImages = 1
    /\ ret = [kind |-> "unexpected cmds list"]

\* C13: once runInspectSidecar created its pod, every return deletes the
\* pod; createPod never deletes the pod it created.
InspectDeletesBuildKeeps ==
    /\ cp.kind = "build" => cluster.podDeletes = 0
    /\ cp.kind = "inspect" =>
          /\ cluster.podDeletes <= cluster.pods
          /\ pc = "done" => cluster.podDeletes = cluster.pods

InspectFailedAndDeleted ==
    /\ pc = "done"
    /\ cp.kind = "inspect"
    /\ ret # nil
    /\ cluster.pods = 1
    /\ cluster.podDeletes = 1

\* C14: DeployService issues the Create of the service and of the headless
\* service only after monitorDeployment returned success; when the monitor
\* fails neither is issued.
ServicesOnlyAfterSuccess ==
    /\ cluster.serviceCreates # <<>> =>
          /\ ghost.monitorReturned
          /\ mon.err = nil
          /\ cluster.rollbacks = 0
    /\ (ghost.monitorReturned /\ mon.err # nil) =>
          /\ cluster.serviceCreates = <<>>
          /\ cluster.services = {}

BothServicesRequested ==
    /\ pc = "done"
    /\ ghost.monitorReturned
    /\ Len(cluster.serviceCreates) = 2

\* C15: the service exposure succeeds whether or not the services existed
\* before (AlreadyExists is no error for either Create) and leaves the
\* service and the headless service in place; AlreadyExists for the first
\* does not stop the Create of the headless service.
ExposureIdempotent ==
    LET c == cluster.serviceCreates
    IN  (pc = "done" /\ c # <<>>) =>
            /\ c[1].name = "service"
            /\ Len(c) <= 2
            /\ c[1].answer # "error" => (Len(c) = 2 /\ c[2].name = "headless")
            /\ IF \A i \in DOMAIN c : c[i].answer # "error"
               THEN ret = nil /\ cluster.services = {"service", "headless"}
               ELSE ret # nil

ExposedAgain ==
    /\ pc = "done"
    /\ ret = nil
    /\ Len(cluster.serviceCreates) = 2
    /\ cluster.serviceCreates[1].answer = "alreadyExists"
    /\ cluster.serviceCreates[2].answer = "alreadyExists"

\* C16: RemoveService attempts the three deletions (deployment, service,
\* headless service) whatever the earlier ones answered, ignores NotFound,
\* and returns an error exactly when a deletion failed otherwise, holding
\* every such failure.
RemoveServiceAggregates ==
    LET d == cluster.deletes
        Failed(x) == x.answer = "error"
        failed == SelectSeq(d, Failed)
    IN  /\ pc = "rs_deleteService" => Len(d) = 1
        /\ pc = "rs_deleteHeadless" => Len(d) = 2
        /\ (pc = "done" /\ d # <<>>) =>
              /\ [i \in 1..Len(d) |-> d[i].name] = <<"deployment", "service", "headless">>
              /\ ret = IF failed = <<>> THEN nil
                       ELSE [kind |-> "multi",
                             errs |-> [i \in 1..Len(failed) |-> [kind |-> failed[i].name]]]

RemovedWithTwoFailures ==
    /\ pc = "done"
    /\ Len(cluster.deletes) = 3
    /\ cluster.deletes[1].answer = "error"
    /\ cluster.deletes[2].answer = "notFound"
    /\ cluster.deletes[3].answer = "error"

\* C17 as stated: with no registry username and no password,
\* getImagePullSecrets issues no secret request and returns no secret
\* reference, even when an image is of the configured registry.
NoCredentialsNoSecret ==
    (cp.secrets.images # <<>> /\ ~cp.secrets.hasCredentials) =>
        /\ cluster.secretCalls = <<>>
        /\ cp.secrets.refs = <<>>
        /\ cluster.podSecrets = <<>>

\* C18: when no image's domain (what precedes its first "/") is the
\* configured registry, getImagePullSecrets issues no secret request and
\* returns no secret reference.
NoMatchNoSecret ==
    (cp.secrets.images # <<>>
       /\ \A i \in DOMAIN cp.secrets.images :
             imgDomain(cp.secrets.images[i]) # cp.secrets.registry) =>
        /\ cluster.secretCalls = <<>>
        /\ cp.secrets.refs = <<>>
        /\ cluster.podSecrets = <<>>

PodWithoutSecret ==
    /\ pc = "done"
    /\ cluster.pods = 1
    /\ cp.secrets.hasCredentials
    /\ cp.secrets.registry = <<"reg.io">>
    /\ cp.secrets.images = << <<"hub.io", "/", "app">>, <<"hub.io", "/", "deploy-agent">> >>
    /\ cluster.podSecrets = <<>>

\* C19: when an image is of the configured registry and credentials are
\* configured, the secret is ensured before the pod is created: Update
\* first, Create only after Update answered NotFound; another Update error
\* or a Create error ends the pipeline with no pod; on success the pod
\* references the secret.
SecretEnsuredBeforePod ==
    LET c == cluster.secretCalls
    IN  (cp.secrets.images # <<>> /\ cp.secrets.hasCredentials
           /\ \E i \in DOMAIN cp.secrets.images :
                 imgDomain(cp.secrets.images[i]) = cp.secrets.registry) =>
            /\ Len(c) \in {1, 2}
            /\ c[1].op = "Update"
            /\ Len(c) = 2 <=> c[1].answer = "notFound"
            /\ Len(c) = 2 => c[2].op = "Create"
            /\ IF c[Len(c)].answer = "ok"
               THEN /\ cp.secrets.refs = <<"registry-secret">>
                    /\ pc \in {"cp_createPod", "in_createPod"} => cluster.pods = 0
                    /\ cluster.pods > 0 => cluster.podSecrets = <<"registry-secret">>
               ELSE /\ pc = "done"
                    /\ ret = [kind |-> IF Len(c) = 1 THEN "secretUpdate" ELSE "secretCreate"]
                    /\ cluster.pods = 0

PodWithCreatedSecret ==
    /\ cluster.pods = 1
    /\ Len(cluster.secretCalls) = 2
    /\ cluster.podSecrets = <<"registry-secret">>

\* C20: after the first iteration, an iteration (a step of the monitor from
\* its select, which leaves the event log and the channel's closing to the
\* cluster) writes the "new units created" line, the "new units ready" line or the "old units pending
\* termination" line only if the counter of the line (updated, updated minus
\* unavailable, total minus updated) differs from its value in the iteration
\* before.
ProgressLinesOnChange ==
    [][(pc = "mon_select" /\ events' = events
          /\ ~(pc' = pc /\ watch'.closed # watch.closed)) =>
         LET old == mon.dep.Status
             new == mon'.dep.Status
         IN  \A i \in DOMAIN w' :
                 /\ w'[i].t = "created" => new.UpdatedReplicas # old.UpdatedReplicas
                 /\ w'[i].t = "ready" =>
                       new.UpdatedReplicas - new.UnavailableReplicas
                         # old.UpdatedReplicas - old.UnavailableReplicas
                 /\ w'[i].t = "pendingTermination" =>
                       new.Replicas - new.UpdatedReplicas
                         # old.Replicas - old.UpdatedReplicas]_vars

IterationWroteNothing ==
    /\ pc = "mon_select"
    /\ ghost.examined
    /\ w = <<>>

----------------------------------------------------------------------------
\* C21 as stated: whenever the health check read by createAppDeployment
\* declares a method that is neither empty nor GET in any letter case,
\* the step of DeployService that calls createAppDeployment fails and the
\* deployment is neither created nor updated.
AnyNonGetMethodFails ==
    [][(pc = "ds_createAppDeployment"
          /\ events' = events
          /\ LET m == ds.app.hc.Method
             IN  ~(\/ m = <<>>
                   \/ /\ Len(m) = 3
                      /\ m[1] \in {"g", "G"} /\ m[2] \in {"e", "E"} /\ m[3] \in {"t", "T"}))
         => /\ pc' = "done"
            /\ ret'.kind \notin {"nil", "running"}
            /\ cluster'.applied = "none"]_vars

\* C21: when DeployService deploys the web process and the image's health
\* check has a path and a method that is neither empty nor GET in any letter
\* case, the step that calls createAppDeployment fails, with the only-GET error unless one of its
\* earlier calls failed, before the deployment is created or updated, and no
\* rollback or service creation follows; no other health check gives that error.
NonGetMethodFailsFast ==
    [][/\ (pc = "ds_createAppDeployment"
            /\ events' = events
            /\ ds.app.process = "web"
            /\ ds.app.hc.Path # ""
            /\ LET m == ds.app.hc.Method
               IN  ~(\/ m = <<>>
                     \/ /\ Len(m) = 3
                        /\ m[1] \in {"g", "G"} /\ m[2] \in {"e", "E"} /\ m[3] \in {"t", "T"}))
           => /\ pc' = "done"
              /\ ret'.kind \in
                   {"healthcheck: only GET method is supported in kubernetes provisioner",
                    "LeanContainerCmdsWithExtra", "GetImageWebProcessName",
                    "GetImageTsuruYamlData"}
              /\ cluster' = cluster
              /\ cluster'.applied = "none"
              /\ cluster'.rollbacks = 0
              /\ cluster'.serviceCreates = <<>>
       /\ ret'.kind = "healthcheck: only GET method is supported in kubernetes provisioner"
           => /\ pc = "ds_createAppDeployment" \/ pc = "done"
              /\ ds'.app.process = "web"
              /\ ds'.app.hc.Path # ""
              /\ ds'.app.hc.Method \notin {<<>>, <<"G", "E", "T">>, <<"g", "e", "t">>}]_vars

PostMethodRejectedBeforeUpdate ==
    /\ pc = "done"
    /\ ret.kind = "healthcheck: only GET method is supported in kubernetes provisioner"
    /\ ds.app.hc.Method = <<"P", "O", "S", "T">>
    /\ ds.oldDeployment
    /\ cluster.applied = "none"
    /\ cluster.rollbacks = 0

----------------------------------------------------------------------------
\* C22: when the overcommit factor handed to createAppDeployment is zero, its
\* step fails with an error, without dividing by zero and before any Create or
\* Update of the deployment; when the factor is positive and memory is
\* declared, the deployment applied has the declared memory as its limit and
\* the declared memory divided by the factor as its request.
ZeroOvercommitFailsFast ==
    [][/\ (pc = "ds_createAppDeployment"
            /\ events' = events
            /\ ds.app.overcommit.err = nil
            /\ ds.app.overcommit.factor = 0)
           => /\ pc' = "done"
              /\ ret'.kind \notin {"nil", "running", "panic"}
              /\ cluster'.applied = "none"
       /\ (pc = "ds_createAppDeployment"
            /\ events' = events
            /\ cluster'.applied # "none"
            /\ ds.app.overcommit.factor > 0
            /\ ds.app.memory # 0)
           => /\ cluster'.resources.limits = ds.app.memory
              /\ cluster'.resources.requests * ds.app.overcommit.factor <= ds.app.memory
              /\ (cluster'.resources.requests + 1) * ds.app.overcommit.factor > ds.app.memory]_vars

----------------------------------------------------------------------------
\* C23: the convergence loop (progress-deadline check, progress lines,
\* health-timer arming, success) runs only on a deployment whose observed
\* generation has reached its generation, after the generation loop re-read
\* it; a run ended by the deployment-progress timer in the generation loop
\* returns the timeout error with the convergence loop never entered.
NoDecisionOnStaleStatus ==
    /\ (\/ pc = "mon_select"
        \/ ghost.examined
        \/ ghost.armCount > 0
        \/ mon.healthcheckTimeout = "armed"
        \/ ghost.monitorReturned /\ ~ghost.watchErr /\ mon.err = nil
        \/ mon.err = [kind |-> "progressDeadline", name |-> depName]
        \/ \E i \in DOMAIN w :
              w[i].t \in {"created", "waitingHealthcheck", "ready", "pendingTermination",
                          "done"})
          => mon.dep.ObservedGeneration >= mon.dep.Generation
    /\ (ghost.monitorReturned /\ mon.err = [kind |-> "generationTimeout"])
          => /\ mon.dep.ObservedGeneration < mon.dep.Generation
             /\ ~ghost.examined
             /\ ghost.armCount = 0
             /\ pc = "ds_monitorReturned" => w = <<>>

EnteredLoopAfterGenerationPoll ==
    /\ pc = "mon_select"
    /\ ghost.examined
    /\ cluster.applied = "Create"
    /\ mon.dep.Generation = 1
    /\ mon.dep.ObservedGeneration = 1

----------------------------------------------------------------------------
\* C24 as stated: monitorDeployment returns success only after the
\* health-check timer has been armed in that run.
SuccessOnlyAfterHealthTimer ==
    (ghost.monitorReturned /\ ~ghost.watchErr /\ mon.err = nil) => ghost.armCount >= 1

\* C24: the monitor's phases occur in order, the health-check wait being
\* skipped when allNewPodsRunning gave no positive answer: the monitor runs
\* only on an applied deployment; the convergence loop examines a status only
\* once the observed generation caught up; the health-check timer is armed
\* only in the convergence loop, on a status whose updated replicas are the
\* desired ones and all pods running; and success is returned only from the
\* convergence loop, on a ready and drained status, armed or not.
PhasesInOrder ==
    /\ (pc \in {"monitorDeployment", "mon_genLoop", "mon_select", "ds_monitorReturned"}
           \/ ghost.monitorReturned)
          => cluster.applied \in {"Create", "Update"}
    /\ (pc = "mon_select" \/ ghost.examined)
          => /\ cluster.applied \in {"Create", "Update"}
             /\ mon.dep.ObservedGeneration >= mon.dep.Generation
    /\ (ghost.armCount >= 1 \/ mon.healthcheckTimeout = "armed")
          => /\ ghost.examined
             /\ ghost.armedOn.updated = mon.specReplicas
             /\ ghost.armedOn.allInit
             /\ ghost.armedOn.err = nil
    /\ (ghost.monitorReturned /\ ~ghost.watchErr /\ mon.err = nil)
          => /\ ghost.examined
             /\ ghost.armCount \in {0, 1}
             /\ mon.dep.Status.UpdatedReplicas - mon.dep.Status.UnavailableReplicas
                  = mon.specReplicas
             /\ mon.dep.Status.Replicas = mon.specReplicas

SucceededThroughAllPhases ==
    /\ pc = "ds_monitorReturned"
    /\ mon.err = nil
    /\ cluster.applied = "Create"
    /\ mon.dep.ObservedGeneration = 1
    /\ ghost.armCount = 1
    /\ ghost.afterArm

----------------------------------------------------------------------------
\* C25: a step of the convergence loop that receives an event from the watch
\* does what a poll tick does, plus at most an echo line: the remembered
\* counters are those of the status read after it; lines other than the echo
\* compare that status with the counters remembered before; an armed
\* health-check timer stays armed and an unarmed one is armed only as that
\* status and allNewPodsRunning warrant; and the monitor returns only on a
\* failed read, a progress-deadline condition or a ready and drained status,
\* never with a timeout error.
EventsOnlyPrint ==
    [][(pc = "mon_select" /\ ghost'.received # ghost.received)
         => LET st == mon'.dep.Status
                ready == st.UpdatedReplicas - st.UnavailableReplicas
                converged == ready = mon.specReplicas /\ st.Replicas = mon.specReplicas
                deadline ==
                    \E i \in DOMAIN st.Conditions :
                        /\ st.Conditions[i].type = "Progressing"
                        /\ st.Conditions[i].reason = "ProgressDeadlineExceeded"
                iterated == pc' = "mon_select" \/ mon'.err = nil
            IN  /\ pc' \in {"mon_select", "ds_monitorReturned"}
                /\ ghost'.selected = ghost.selected
                /\ mon'.specReplicas = mon.specReplicas
                /\ \A i \in DOMAIN w' : w'[i].t = "event" => i = 1
                /\ pc' = "mon_select" =>
                      /\ ~converged /\ ~deadline
                      /\ mon'.err = mon.err
                      /\ mon'.timeout = mon.timeout
                      /\ mon'.oldUpdatedReplicas = st.UpdatedReplicas
                      /\ mon'.oldReadyUnits = ready
                      /\ mon'.oldPendingTermination = st.Replicas - st.UpdatedReplicas
                      /\ mon.healthcheckTimeout = "armed" =>
                            /\ mon'.healthcheckTimeout = "armed"
                            /\ ghost'.armCount = ghost.armCount
                      /\ (mon.healthcheckTimeout = "nil" /\ mon'.healthcheckTimeout = "armed") =>
                            /\ st.UpdatedReplicas = mon.specReplicas
                            /\ ghost'.armedOn.allInit
                            /\ ghost'.armedOn.err = nil
                /\ pc' = "ds_monitorReturned" =>
                      \/ mon'.err = [kind |-> "getDeployment"] /\ mon'.dep = mon.dep
                      \/ mon'.err = [kind |-> "progressDeadline", name |-> depName] /\ deadline
                      \/ mon'.err = [kind |-> "nil"] /\ converged /\ ~deadline
                /\ iterated =>
                      ((\E i \in DOMAIN w' : w'[i].t = "created")
                          <=> mon.oldUpdatedReplicas # st.UpdatedReplicas)
                /\ ~iterated => \A i \in DOMAIN w' : w'[i].t = "event"]_vars

ReceivedUnrelatedEventWhileArmed ==
    /\ pc = "mon_select"
    /\ watch.cur \in ghost.received
    /\ events[watch.cur].involvedName = <<"myapp", "v1", "build">>
    /\ mon.healthcheckTimeout = "armed"
    /\ ghost.afterArm
    /\ w = <<>>

----------------------------------------------------------------------------
\* C26: once the convergence loop saw the event channel closed, the monitor
\* has not failed and goes on with a nil channel: it receives nothing more
\* from the watch, keeps the channel nil while it polls, and eventually
\* returns, by convergence, a failed read, a progress-deadline condition or a
\* timer, its deferred function finding the channel closed without waiting
\* on it.
ClosedChannelHarmless ==
    /\ [](mon.watchCh = "nil" => pc = "mon_select" /\ watch.closed /\ mon.err = nil)
    /\ [][(pc = "mon_select" /\ mon.watchCh = "nil")
            => /\ ghost'.received = ghost.received
               /\ pc' \in {"mon_select", "ds_monitorReturned"}
               /\ pc' = "mon_select" => mon'.watchCh = "nil" /\ watch'.cur = watch.cur
               /\ pc' = "ds_monitorReturned" =>
                     /\ ghost'.monitorReturned
                     /\ ghost'.closedAtReturn
                     /\ watch'.state = "stopped"
                     /\ mon'.err.kind \in {"nil", "getDeployment", "progressDeadline",
                                            "timeout"}]_vars
    /\ (pc = "mon_select" /\ mon.watchCh = "nil") ~> ghost.monitorReturned

PollingAfterChannelClosed ==
    /\ pc = "mon_select"
    /\ mon.watchCh = "nil"
    /\ watch.closed
    /\ mon.healthcheckTimeout = "armed"
    /\ ghost.afterArm

----------------------------------------------------------------------------
\* C27: during createPod the drain goroutine and the main flow (the attach
\* stream and the "Cleaning up" notice) are never both inside a Write on the
\* caller's output, and no line comes out mixed with another.
SinkWritesSerialized ==
    /\ ~({"main", "drain"} \subseteq cp.writing)
    /\ \A i \in DOMAIN w : w[i].t # "interleaved"

----------------------------------------------------------------------------
\* C28: a step of the convergence loop that receives an event echoes it,
\* as one line without the sub-object path, exactly when the name of the
\* object the event is about has the deployment's name as a prefix, and
\* writes no event line otherwise.
EchoesEventsOfInvolvedObject ==
    [][(pc = "mon_select" /\ ghost'.received # ghost.received)
         => LET e == events[NextEvent]
                involved ==
                    /\ Len(e.involvedName) >= Len(depName)
                    /\ \A i \in 1..Len(depName) : e.involvedName[i] = depName[i]
                echo == [t |-> "event",
                         txt |-> <<e.involvedName, " - ", e.message, " [",
                                   e.component, ", ", e.host, "]">>]
            IN  /\ involved => Len(w') >= 1 /\ w'[1] = echo
                /\ ~involved => \A i \in DOMAIN w' : w'[i].t # "event"
                /\ \A i \in DOMAIN w' : i > 1 => w'[i].t # "event"]_vars

====
